---- MODULE Spec2Model ----
(***************************************************************************)
(* Model of utm_builder.py: normalize_pair, build_utm_url and the history  *)
(* handling of App.                                                        *)
(*                                                                         *)
(* A Python str is modelled as a sequence of atoms.  An atom is either a   *)
(* single punctuation character (":", "/", "?", "#", "=", "&", "+", " ",   *)
(* "\t", "_", "-"), a word of letters, digits and dots that the code never *)
(* looks into ("example.com", "page", "a", "A", ...), or one percent       *)
(* escape of a raw query string ("%26").  The character-wise functions of  *)
(* the code (strip, lower, replace, find, split, quote_plus, unquote) act  *)
(* atom by atom.  The characters "[", "]", ";" and "@" and raw "%" are     *)
(* outside the modelled alphabet.                                          *)
(***************************************************************************)
EXTENDS Integers, Sequences, FiniteSets, TLC

----------------------------------------------------------------------------
(* Python string primitives                                                *)

\* Python's None (a value that is no str).
None == <<"<None>">>

\* characters removed by str.strip()
IsSpace(c) == c \in {" ", "\t"}

\* str.lower() on one atom
LowerAtom(c) ==
    CASE c = "A" -> "a"
      [] c = "X" -> "x"
      [] c = "HTTP" -> "http"
      [] c = "UTM" -> "utm"
      [] c = "Source" -> "source"
      [] c = "Paid" -> "paid"
      [] c = "Search" -> "search"
      [] OTHER -> c

Min(S) == CHOOSE x \in S : \A y \in S : x <= y
Max(S) == CHOOSE x \in S : \A y \in S : x >= y

\* s.strip()
strip(s) ==
    LET keep == {i \in 1..Len(s) : ~IsSpace(s[i])}
    IN  IF keep = {} THEN <<>> ELSE SubSeq(s, Min(keep), Max(keep))

\* s.lower()
lower(s) == [i \in 1..Len(s) |-> LowerAtom(s[i])]

\* s.replace(old, new) for a one-character old and new
replace(s, old, new) == [i \in 1..Len(s) |-> IF s[i] = old THEN new ELSE s[i]]

\* s.find(c, start) with 0-based positions; -1 when c does not occur
find(s, c, start) ==
    LET hits == {i \in start..(Len(s) - 1) : s[i + 1] = c}
    IN  IF hits = {} THEN -1 ELSE Min(hits)

\* s[i:] and s[:i] for 0 <= i
From(s, i) == SubSeq(s, i + 1, Len(s))
Upto(s, i) == SubSeq(s, 1, IF i < Len(s) THEN i ELSE Len(s))

\* sub in s
Contains(s, sub) ==
    \E i \in 0..(Len(s) - Len(sub)) : SubSeq(s, i + 1, i + Len(sub)) = sub

----------------------------------------------------------------------------
(* normalize_pair                                                          *)

\* transform with the spaces replaced before the string is trimmed
transform_replace_first(s, force_lower, space_mode) ==
    IF s = None THEN s
    ELSE LET s1 == IF space_mode = "underscore" THEN replace(s, " ", "_")
                   ELSE IF space_mode = "dash" THEN replace(s, " ", "-")
                   ELSE s
             s2 == strip(s1)
         IN  IF force_lower THEN lower(s2) ELSE s2

transform(s, force_lower, space_mode) ==
    IF s = None THEN s
    ELSE LET s1 == strip(s)
             s2 == IF force_lower THEN lower(s1) ELSE s1
         IN  IF space_mode = "underscore" THEN replace(s2, " ", "_")
             ELSE IF space_mode = "dash" THEN replace(s2, " ", "-")
             ELSE s2

normalize_pair(k, v, force_lower, space_mode) ==
    <<transform(k, force_lower, space_mode), transform(v, force_lower, space_mode)>>

----------------------------------------------------------------------------
(* urllib.parse as used by build_utm_url (CPython 3.11)                    *)

Punctuation == {":", "/", "?", "#", "=", "&", "+", " ", "\t"}
Escapes == {"%3A", "%2F", "%3F", "%23", "%3D", "%26", "%2B", "%09"}

\* a word atom: letters, digits and dots only
IsWord(c) == c \notin Punctuation \cup Escapes \cup {"_", "-"}
IsDigits(c) == c \in {ToString(n) : n \in 0..99}

\* c consists of characters of urllib.parse.scheme_chars
IsSchemeAtom(c) == IsWord(c) \/ c \in {"+", "-"}
\* c[0].isascii() and c[0].isalpha()
StartsAlpha(c) == IsWord(c) /\ ~IsDigits(c)

\* url.lstrip(_WHATWG_C0_CONTROL_OR_SPACE)
lstrip(s) ==
    LET keep == {i \in 1..Len(s) : ~IsSpace(s[i])}
    IN  IF keep = {} THEN <<>> ELSE SubSeq(s, Min(keep), Len(s))

\* url.replace(b, "") for b in _UNSAFE_URL_BYTES_TO_REMOVE
remove_unsafe(s) == SelectSeq(s, LAMBDA c : c # "\t")

\* _splitnetloc(url, 2): <<domain, rest>>
splitnetloc(url) ==
    LET ends == {i \in 2..(Len(url) - 1) : url[i + 1] \in {"/", "?", "#"}}
        delim == IF ends = {} THEN Len(url) ELSE Min(ends)
    IN  <<SubSeq(url, 3, delim), From(url, delim)>>

\* urlparse(url): the components of ParseResult (params is always empty)
urlparse(url0) ==
    LET url1 == remove_unsafe(lstrip(url0))
        i == find(url1, ":", 0)
        has_scheme == /\ i > 0
                      /\ StartsAlpha(url1[1])
                      /\ \A j \in 1..i : IsSchemeAtom(url1[j])
        scheme == IF has_scheme THEN lower(Upto(url1, i)) ELSE <<>>
        url2 == IF has_scheme THEN From(url1, i + 1) ELSE url1
        has_netloc == Upto(url2, 2) = <<"/", "/">>
        netloc == IF has_netloc THEN splitnetloc(url2)[1] ELSE <<>>
        url3 == IF has_netloc THEN splitnetloc(url2)[2] ELSE url2
        h == find(url3, "#", 0)
        fragment == IF h >= 0 THEN From(url3, h + 1) ELSE <<>>
        url4 == IF h >= 0 THEN Upto(url3, h) ELSE url3
        q == find(url4, "?", 0)
        query == IF q >= 0 THEN From(url4, q + 1) ELSE <<>>
        path == IF q >= 0 THEN Upto(url4, q) ELSE url4
    IN  [scheme |-> scheme, netloc |-> netloc, path |-> path,
         query |-> query, fragment |-> fragment]

\* urlunparse(parsed); build_utm_url only calls it with a non-empty netloc
urlunparse(p) ==
    LET url1 == IF p.netloc # <<>>
                THEN <<"/", "/">> \o p.netloc
                     \o (IF p.path # <<>> /\ Head(p.path) # "/" THEN <<"/">> ELSE <<>>)
                     \o p.path
                ELSE p.path
        url2 == IF p.scheme # <<>> THEN p.scheme \o <<":">> \o url1 ELSE url1
        url3 == IF p.query # <<>> THEN url2 \o <<"?">> \o p.query ELSE url2
    IN  IF p.fragment # <<>> THEN url3 \o <<"#">> \o p.fragment ELSE url3

\* s.split(sep): the list of the pieces of s between the occurrences of sep
RECURSIVE split(_, _)
split(s, sep) ==
    LET i == find(s, sep, 0)
    IN  IF i < 0 THEN <<s>> ELSE <<Upto(s, i)>> \o split(From(s, i + 1), sep)

\* unquote of one atom (each escape is one atom)
UnquoteAtom(c) ==
    CASE c = "%3A" -> ":"
      [] c = "%2F" -> "/"
      [] c = "%3F" -> "?"
      [] c = "%23" -> "#"
      [] c = "%3D" -> "="
      [] c = "%26" -> "&"
      [] c = "%2B" -> "+"
      [] c = "%09" -> "\t"
      [] OTHER -> c

\* unquote(s.replace('+', ' '))
unquote_plus(s) == [i \in 1..Len(s) |-> UnquoteAtom(IF s[i] = "+" THEN " " ELSE s[i])]

\* quote_plus of one atom: safe characters stay, ' ' becomes '+', the rest %XX
QuoteAtom(c) ==
    CASE c = " " -> "+"
      [] c = ":" -> "%3A"
      [] c = "/" -> "%2F"
      [] c = "?" -> "%3F"
      [] c = "#" -> "%23"
      [] c = "=" -> "%3D"
      [] c = "&" -> "%26"
      [] c = "+" -> "%2B"
      [] c = "\t" -> "%09"
      [] OTHER -> c

quote_plus(s) == [i \in 1..Len(s) |-> QuoteAtom(s[i])]

\* parse_qsl(qs, keep_blank_values=True): the list of decoded (name, value)
parse_qsl(qs) ==
    LET query_args == IF qs # <<>> THEN split(qs, "&") ELSE <<>>
        fields == SelectSeq(query_args, LAMBDA name_value : name_value # <<>>)
        decode(name_value) ==
            LET e == find(name_value, "=", 0)
                name == IF e >= 0 THEN Upto(name_value, e) ELSE name_value
                value == IF e >= 0 THEN From(name_value, e + 1) ELSE <<>>
            IN  <<unquote_plus(name), unquote_plus(value)>>
    IN  [i \in 1..Len(fields) |-> decode(fields[i])]

----------------------------------------------------------------------------
(* Python dict: a sequence of <<key, value>> with distinct keys, in        *)
(* insertion order.                                                        *)

Keys(d) == {d[i][1] : i \in 1..Len(d)}
Get(d, k) == d[CHOOSE i \in 1..Len(d) : d[i][1] = k][2]

\* d[k] = v: an existing key keeps its position, a new key goes last
DictSet(d, k, v) ==
    IF k \in Keys(d)
    THEN [i \in 1..Len(d) |-> IF d[i][1] = k THEN <<k, v>> ELSE d[i]]
    ELSE Append(d, <<k, v>>)

\* an update that moves an overwritten key to the end
RECURSIVE update_moving(_, _)
update_moving(d, u) ==
    IF u = <<>> THEN d
    ELSE update_moving(Append(SelectSeq(d, LAMBDA e : e[1] # Head(u)[1]), Head(u)), Tail(u))

\* d.update(u)
RECURSIVE update(_, _)
update(d, u) == IF u = <<>> THEN d ELSE update(DictSet(d, Head(u)[1], Head(u)[2]), Tail(u))

\* dict(items): later items overwrite earlier ones with the same key
FromItems(items) == update(<<>>, items)

\* urlencode(d, doseq=True, quote_via=quote_plus) for str values
RECURSIVE urlencode(_)
urlencode(d) ==
    IF d = <<>> THEN <<>>
    ELSE LET kv == quote_plus(Head(d)[1]) \o <<"=">> \o quote_plus(Head(d)[2])
         IN  IF Len(d) = 1 THEN kv ELSE kv \o <<"&">> \o urlencode(Tail(d))

----------------------------------------------------------------------------
(* build_utm_url                                                           *)

EmptyBaseURLError == "Base URL is required."
InvalidBaseURLError == "Base URL seems invalid. Example: https://example.com/landing"

Raise(msg) == [raised |-> TRUE, error |-> msg, url |-> <<>>]
Return(u) == [raised |-> FALSE, error |-> "", url |-> u]

\* scheme inference that prepends "http://"
with_scheme_http(base_url) ==
    IF Contains(base_url, <<":", "/", "/">>) THEN base_url
    ELSE <<"http", ":", "/", "/">> \o base_url

\* the argument of urlparse: scheme inference
with_scheme(base_url) ==
    IF Contains(base_url, <<":", "/", "/">>) THEN base_url
    ELSE <<"https", ":", "/", "/">> \o base_url

\* existing parameters collected whatever merge_existing says
existing_params_always(parsed, merge_existing) ==
    IF parsed.query # <<>> THEN FromItems(parse_qsl(parsed.query)) ELSE <<>>

\* existing = {} ... existing[k] = v
existing_params(parsed, merge_existing) ==
    IF merge_existing /\ parsed.query # <<>>
    THEN FromItems(parse_qsl(parsed.query))
    ELSE <<>>

\* "not v" for a str or None
Falsy(v) == v = None \/ v = <<>>

\* utm built with "override_existing and nk not in existing"
RECURSIVE utm_params_and(_, _, _, _, _)
utm_params_and(pairs, existing, force_lower, space_mode, override_existing) ==
    IF pairs = <<>> THEN <<>>
    ELSE LET k == pairs[Len(pairs)][1]
             v == pairs[Len(pairs)][2]
             utm == utm_params_and(SubSeq(pairs, 1, Len(pairs) - 1), existing,
                                   force_lower, space_mode, override_existing)
             n == normalize_pair(k, v, force_lower, space_mode)
         IN  IF Falsy(v) THEN utm
             ELSE IF Falsy(n[1]) \/ n[2] = None \/ n[2] = <<>> THEN utm
             ELSE IF override_existing /\ n[1] \notin Keys(existing)
                  THEN DictSet(utm, n[1], n[2])
             ELSE utm

\* utm built without the check of the normalized key and value
RECURSIVE utm_params_unchecked(_, _, _, _, _)
utm_params_unchecked(pairs, existing, force_lower, space_mode, override_existing) ==
    IF pairs = <<>> THEN <<>>
    ELSE LET k == pairs[Len(pairs)][1]
             v == pairs[Len(pairs)][2]
             utm == utm_params_unchecked(SubSeq(pairs, 1, Len(pairs) - 1), existing,
                                         force_lower, space_mode, override_existing)
             n == normalize_pair(k, v, force_lower, space_mode)
         IN  IF Falsy(v) THEN utm
             ELSE IF override_existing \/ n[1] \notin Keys(existing)
                  THEN DictSet(utm, n[1], n[2])
             ELSE utm

\* utm = {} ... utm[nk] = nv
RECURSIVE utm_params(_, _, _, _, _)
utm_params(pairs, existing, force_lower, space_mode, override_existing) ==
    IF pairs = <<>> THEN <<>>
    ELSE LET k == pairs[Len(pairs)][1]
             v == pairs[Len(pairs)][2]
             utm == utm_params(SubSeq(pairs, 1, Len(pairs) - 1), existing,
                               force_lower, space_mode, override_existing)
             n == normalize_pair(k, v, force_lower, space_mode)
         IN  IF Falsy(v) THEN utm
             ELSE IF Falsy(n[1]) \/ n[2] = None \/ n[2] = <<>> THEN utm
             ELSE IF override_existing \/ n[1] \notin Keys(existing)
                  THEN DictSet(utm, n[1], n[2])
             ELSE utm

build_utm_url(base_url, pairs, force_lower, space_mode, merge_existing, override_existing) ==
    IF Falsy(base_url) THEN Raise(EmptyBaseURLError)
    ELSE LET parsed == urlparse(with_scheme(base_url))
         IN  IF parsed.netloc = <<>> THEN Raise(InvalidBaseURLError)
             ELSE LET existing == existing_params(parsed, merge_existing)
                      utm == utm_params(pairs, existing, force_lower, space_mode,
                                        override_existing)
                      final == update(existing, utm)
                      new_query == urlencode(final)
                      rebuilt == [parsed EXCEPT !.query = new_query]
                  IN  Return(urlunparse(rebuilt))

----------------------------------------------------------------------------
(* State                                                                   *)

VARIABLES
    pc,                 \* position of the caller: "call", "done", "remerged", "idle"
    arg_k, arg_v,       \* arguments k, v of a normalize_pair call
    base_url, pairs,    \* arguments of a build_utm_url call; pairs is a dict
    force_lower, space_mode, merge_existing, override_existing,
    normalized,         \* return value of normalize_pair
    result,             \* outcome of build_utm_url
    remerged,           \* outcome of build_utm_url on its own output
    history,            \* App.history
    output_var,         \* App.output_var
    dialog,             \* the messagebox the last handler showed, "" if none
    generated,          \* url of on_generate: the last URL it built, "" if none
    urls,               \* what build_utm_url gives for each form (computed once)
    campaigns,          \* number of campaign numbers generated so far
    repeats             \* number of generate steps that reused a campaign number

vars == <<pc, arg_k, arg_v, base_url, pairs, force_lower, space_mode, merge_existing,
          override_existing, normalized, result, remerged, history, output_var,
          dialog, generated, urls, campaigns, repeats>>

callVars == <<arg_k, arg_v, base_url, pairs, force_lower, space_mode, merge_existing,
              override_existing>>
appVars == <<history, output_var, dialog, generated, urls, campaigns, repeats>>

NoResult == [raised |-> FALSE, error |-> "none", url |-> <<>>]
SpaceModes == {"underscore", "dash", "keep"}

----------------------------------------------------------------------------
(* Bounds and input sets                                                   *)

MaxKeyLen == 3
MaxValLen == 3
MaxPairs == 2
MaxQueryFields == 2

StrUpTo(A, n) == UNION {[1..m -> A] : m \in 0..n}

RECURSIVE JoinWith(_, _)
JoinWith(ss, sep) ==
    IF ss = <<>> THEN <<>>
    ELSE IF Len(ss) = 1 THEN ss[1]
    ELSE ss[1] \o <<sep>> \o JoinWith(Tail(ss), sep)

\* arguments of normalize_pair
NormKeys == StrUpTo({"UTM", "Source", " "}, MaxKeyLen)
NormValues == StrUpTo({"Paid", "Search", " ", "\t"}, MaxValLen) \cup {None}

\* raw fields of the query string of a base URL
RawFields ==
    { <<"a", "=", "1">>, <<"b">>,
      <<"n", "=", ":", "/", "/">>, <<"k", "=", "%26", "+", "x">> }
RawFieldsFew == { <<"a", "=", "1">>, <<"a", "=", "2">>, <<"b", "=">> }

\* "" (no '?' at all) or '?' followed by up to MaxQueryFields fields
QueryParts(fields) ==
    {<<>>} \cup {<<"?">> \o JoinWith(fs, "&") : fs \in StrUpTo(fields, MaxQueryFields)}

\* base URLs, typed with and without a scheme, host, path, query, fragment
UrlBases ==
    { pre \o host \o tail[1] \o query \o tail[2] :
        pre \in { <<>>, <<"http", ":", "/", "/">>, <<"HTTP", ":", "/", "/">>,
                  <<"/", "/">>, <<" ">> },
        host \in { <<>>, <<"example.com">> },
        tail \in { << <<>>, <<>> >>, << <<"/", "page">>, <<>> >>,
                   << <<"/", "page">>, <<"#", "f">> >> },
        query \in QueryParts(RawFields) }
    \cup { <<"\t">>, <<"utm", "_", "source", "=", "foo">> }

MergeBases == { <<"example.com">> \o query : query \in QueryParts(RawFieldsFew) }

\* dicts of supplied pairs: up to MaxPairs entries with distinct keys
PairKeys == { <<"a">>, <<"A">>, <<" ">> }
PairValues == { None, <<>>, <<" ">>, <<"x">>, <<"X", " ", "&">> }
Dicts(K, V) ==
    { d \in StrUpTo(K \X V, MaxPairs) :
        \A i, j \in 1..Len(d) : i # j => d[i][1] # d[j][1] }

UtmPairs ==
    { <<>>,
      << <<<<"utm", "_", "source">>, <<"x">>>>, <<<<"utm", "_", "medium">>, <<"y">>>>,
         <<<<"utm", "_", "campaign">>, <<"z">>>> >>,
      << <<<<"a">>, <<"X", " ", "&">>>> >> }

----------------------------------------------------------------------------
(* Calls of normalize_pair                                                 *)

InitNorm ==
    /\ pc = "call"
    /\ arg_k \in NormKeys
    /\ arg_v \in NormValues
    /\ force_lower \in BOOLEAN
    /\ space_mode \in SpaceModes
    /\ normalized = <<>>
    /\ base_url = <<>> /\ pairs = <<>>
    /\ merge_existing = TRUE /\ override_existing = TRUE
    /\ result = NoResult /\ remerged = NoResult
    /\ history = <<>> /\ output_var = <<>> /\ dialog = "" /\ generated = <<>>
    /\ urls = <<>>
    /\ campaigns = 0 /\ repeats = 0

NormalizePair ==
    /\ pc = "call"
    /\ normalized' = normalize_pair(arg_k, arg_v, force_lower, space_mode)
    /\ pc' = "done"
    /\ UNCHANGED <<callVars, appVars, result, remerged>>

NextNorm == NormalizePair
SpecNorm == InitNorm /\ [][NextNorm]_vars

----------------------------------------------------------------------------
(* Calls of build_utm_url                                                  *)

InitCall(bases, dicts) ==
    /\ pc = "call"
    /\ base_url \in bases
    /\ pairs \in dicts
    /\ force_lower \in BOOLEAN
    /\ space_mode \in SpaceModes
    /\ merge_existing \in BOOLEAN
    /\ override_existing \in BOOLEAN
    /\ arg_k = <<>> /\ arg_v = <<>> /\ normalized = <<>>
    /\ result = NoResult /\ remerged = NoResult
    /\ history = <<>> /\ output_var = <<>> /\ dialog = "" /\ generated = <<>>
    /\ urls = <<>>
    /\ campaigns = 0 /\ repeats = 0

BuildUtmUrl ==
    /\ pc = "call"
    /\ result' = build_utm_url(base_url, pairs, force_lower, space_mode,
                               merge_existing, override_existing)
    /\ pc' = "done"
    /\ UNCHANGED <<callVars, appVars, normalized, remerged>>

\* build_utm_url(u, {}, ...) on a returned URL u, with merge_existing=True
Remerge ==
    /\ pc = "done"
    /\ ~result.raised
    /\ \E override \in BOOLEAN :
         remerged' = build_utm_url(result.url, <<>>, force_lower, space_mode,
                                   TRUE, override)
    /\ pc' = "remerged"
    /\ UNCHANGED <<callVars, appVars, normalized, result>>

\* the merge of supplied pairs into an existing query
InitBuild == InitCall(MergeBases, Dicts(PairKeys, PairValues))
NextBuild == BuildUtmUrl
SpecBuild == InitBuild /\ [][NextBuild]_vars

\* base URLs of every shape, and the re-merge of the returned URL
InitUrl == InitCall(UrlBases, UtmPairs)
NextUrl == BuildUtmUrl \/ Remerge
SpecUrl == InitUrl /\ [][NextUrl]_vars

----------------------------------------------------------------------------
(* App: the generate handlers and the history                              *)

HISTORY_LIMIT == 20
MaxCampaign == 21
MaxRepeats == 1

REQUIRED_KEYS == << <<"utm", "_", "source">>, <<"utm", "_", "medium">>,
                    <<"utm", "_", "campaign">> >>

\* contents of the entry widgets when a handler runs: the base URL entry and
\* the entries of vars_core, in the order of the dict; campaign number 0
\* stands for an empty utm_campaign entry
Form(base, n) ==
    [base |-> base,
     fields |-> << <<REQUIRED_KEYS[1], <<" ", "s">>>>,
                   <<REQUIRED_KEYS[2], <<"m">>>>,
                   <<REQUIRED_KEYS[3], IF n = 0 THEN <<" ">> ELSE <<"c", ToString(n)>>>>,
                   <<<<"utm", "_", "term">>, <<>>>> >>,
     n |-> n]
ValidBase == <<"example.com", "/", "page", " ">>
Forms ==
    { Form(ValidBase, n) : n \in 0..MaxCampaign }
    \cup { Form(<<" ">>, 0), Form(<<>>, 1), Form(<<"/", "page">>, 1) }

\* App._collect_pairs
RECURSIVE collect_pairs(_)
collect_pairs(fields) ==
    IF fields = <<>> THEN <<>>
    ELSE LET v == strip(Head(fields)[2])
         IN  IF v # <<>> THEN <<<<Head(fields)[1], v>>>> \o collect_pairs(Tail(fields))
             ELSE collect_pairs(Tail(fields))

\* App._validate_required
validate_required(ps) ==
    SelectSeq(REQUIRED_KEYS, LAMBDA rk : rk \notin Keys(ps) \/ Falsy(Get(ps, rk)))

\* _add_history without "del self.history[HISTORY_LIMIT:]"
add_history_unbounded(h, url) ==
    LET at == {i \in 1..Len(h) : h[i] = url}
        removed == IF at = {} THEN h
                   ELSE SubSeq(h, 1, Min(at) - 1) \o SubSeq(h, Min(at) + 1, Len(h))
    IN  <<url>> \o removed

\* App._add_history: the new value of self.history
add_history(h, url) ==
    LET at == {i \in 1..Len(h) : h[i] = url}
        removed == IF at = {} THEN h
                   ELSE SubSeq(h, 1, Min(at) - 1) \o SubSeq(h, Min(at) + 1, Len(h))
        inserted == <<url>> \o removed
    IN  SubSeq(inserted, 1, IF Len(inserted) < HISTORY_LIMIT THEN Len(inserted)
                            ELSE HISTORY_LIMIT)

\* the build_utm_url call of on_generate on the form f.  The option
\* variables hold their initial values (lines 165-168).
form_url(f) ==
    build_utm_url(strip(f.base), collect_pairs(f.fields), TRUE, "underscore", TRUE, TRUE)

\* App.on_generate on the form f, where yes is the answer to askyesno:
\* the values it leaves in history and output_var, and the dialog it showed
on_generate_result(f, yes, h, out) ==
    LET base == strip(f.base)
        ps == collect_pairs(f.fields)
        missing == validate_required(ps)
        r == urls[f]
    IN  IF missing # <<>> /\ base = <<>>
        THEN [history |-> h, output_var |-> out, dialog |-> "Missing", url |-> <<>>]
        ELSE IF missing # <<>> /\ ~yes
        THEN [history |-> h, output_var |-> out, dialog |-> "Proceed?", url |-> <<>>]
        ELSE IF r.raised
        THEN [history |-> h, output_var |-> out, dialog |-> "Failed to generate URL", url |-> <<>>]
        ELSE [history |-> add_history(h, r.url), output_var |-> r.url,
              dialog |-> "", url |-> r.url]

\* The history depends on the URLs only through their equality.  The model
\* follows the generate steps whose form carries the next unused campaign
\* number, those (at most MaxRepeats) that leave the campaign empty or reuse
\* the first, the last or the last but one campaign number, and all those
\* that build no URL.
Followed(f) ==
    \/ f.base # ValidBase
    \/ f.n = campaigns + 1
    \/ /\ f.n \in {0, 1, campaigns - 1, campaigns}
       /\ repeats < MaxRepeats

\* the answers to askyesno that on_generate can get
Answers(f) == IF validate_required(collect_pairs(f.fields)) # <<>> THEN BOOLEAN ELSE {TRUE}

Generate(f, shown) ==
    /\ Followed(f)
    /\ \E yes \in Answers(f) :
         LET g == on_generate_result(f, yes, history, output_var)
         IN  /\ history' = g.history
             /\ output_var' = g.output_var
             /\ generated' = IF g.url # <<>> THEN g.url ELSE generated
             /\ dialog' \in IF g.url # <<>> THEN shown ELSE {g.dialog}
             /\ campaigns' = IF g.url # <<>> /\ f.n > campaigns THEN f.n ELSE campaigns
             /\ repeats' = IF g.url # <<>> /\ f.n <= campaigns THEN repeats + 1 ELSE repeats

Init ==
    /\ pc = "idle"
    /\ history = <<>>
    /\ output_var = <<>>
    /\ dialog = ""
    /\ generated = <<>>
    /\ urls = [f \in Forms |-> form_url(f)]
    /\ campaigns = 0
    /\ repeats = 0
    /\ arg_k = <<>> /\ arg_v = <<>> /\ normalized = <<>>
    /\ base_url = <<>> /\ pairs = <<>>
    /\ force_lower = TRUE /\ space_mode = "underscore"
    /\ merge_existing = TRUE /\ override_existing = TRUE
    /\ result = NoResult /\ remerged = NoResult

on_generate ==
    /\ \E f \in Forms : Generate(f, {""})
    /\ UNCHANGED <<pc, callVars, normalized, result, remerged, urls>>

\* on_copy: generates first when the output is empty; then, unless the output
\* is still empty, copies it to the clipboard, which can fail
on_copy ==
    /\ IF strip(output_var) = <<>>
       THEN \E f \in Forms : Generate(f, {"Copied", "Failed to copy"})
       ELSE /\ dialog' \in {"Copied", "Failed to copy"}
            /\ UNCHANGED <<history, output_var, generated, campaigns, repeats>>
    /\ UNCHANGED <<pc, callVars, normalized, result, remerged, urls>>

\* on_open: generates first when the output is empty; then, unless the output
\* is still empty, opens the browser, which can fail
on_open ==
    /\ IF strip(output_var) = <<>>
       THEN \E f \in Forms : Generate(f, {"", "Failed to open browser"})
       ELSE /\ dialog' \in {"", "Failed to open browser"}
            /\ UNCHANGED <<history, output_var, generated, campaigns, repeats>>
    /\ UNCHANGED <<pc, callVars, normalized, result, remerged, urls>>

on_reset ==
    /\ output_var' = <<>>
    /\ dialog' = ""
    /\ UNCHANGED <<history, generated, campaigns, repeats, urls>>
    /\ UNCHANGED <<pc, callVars, normalized, result, remerged>>

\* the entries of the history list that the model selects: the first, the
\* second and the last; 0 stands for an empty selection
Selections == {0, 1, 2, Len(history)}

on_history_double_click ==
    /\ \E sel \in Selections :
         /\ sel <= Len(history)
         /\ output_var' = IF sel = 0 THEN output_var ELSE history[sel]
    /\ dialog' = ""
    /\ UNCHANGED <<history, generated, campaigns, repeats, urls>>
    /\ UNCHANGED <<pc, callVars, normalized, result, remerged>>

Next == on_generate \/ on_copy \/ on_open \/ on_reset \/ on_history_double_click
Spec == Init /\ [][Next]_vars

----------------------------------------------------------------------------
(* What the claims speak about, read off the arguments and the returned    *)
(* URL of the build_utm_url call in the state.                             *)

Built == pc # "call" /\ ~result.raised

\* the existing query mapping E (empty when merge_existing is false)
ExistingMap ==
    IF merge_existing THEN FromItems(parse_qsl(urlparse(with_scheme(base_url)).query))
    ELSE <<>>

\* the mapping of the query the base URL carries
OriginalMap == FromItems(parse_qsl(urlparse(with_scheme(base_url)).query))

\* the supplied pairs after normalization, in the order supplied
NormalizedPairs ==
    [i \in 1..Len(pairs) |-> normalize_pair(pairs[i][1], pairs[i][2], force_lower, space_mode)]

\* supplied pair i is blank: no value, or an empty value or key once normalized
IsBlank(i) ==
    \/ NormalizedPairs[i][2] = None
    \/ NormalizedPairs[i][2] = <<>>
    \/ NormalizedPairs[i][1] = <<>>

\* the normalized non-blank candidates, in the order supplied
Candidates == SelectSeq(NormalizedPairs, LAMBDA n : n[2] # None /\ n[2] # <<>> /\ n[1] # <<>>)

\* candidate i is the last supplied one with its key
IsLast(i) == \A j \in (i + 1)..Len(Candidates) : Candidates[j][1] # Candidates[i][1]

\* the query of the returned URL, decoded: the list of its (key, value)
OutParams == parse_qsl(urlparse(result.url).query)

Has(d, k, v) == \E i \in 1..Len(d) : d[i] = <<k, v>>
Pairs(d) == {d[i] : i \in 1..Len(d)}

\* a candidate takes effect: override is on or its key is not in E
Applies(c) == override_existing \/ c[1] \notin Keys(ExistingMap)

----------------------------------------------------------------------------
(* C1: merge precedence                                                    *)

\* C1 as stated: each normalized non-blank candidate (k, v) is in the output
\* with value v if override_existing is true or k is not a key of E, and the
\* output keeps E[k] otherwise.
C1_EachCandidate ==
    Built =>
      \A i \in 1..Len(Candidates) :
        LET k == Candidates[i][1]
            v == Candidates[i][2]
        IN  IF Applies(Candidates[i]) THEN Has(OutParams, k, v)
            ELSE Has(OutParams, k, Get(ExistingMap, k))

\* C1 amended: when several supplied pairs normalize to the same key, the
\* last supplied of them is the candidate for that key.  Each such candidate
\* (k, v) is in the output with value v if override_existing is true or k is
\* not a key of E, and the output keeps E[k] otherwise.
C1_MergePrecedence ==
    Built =>
      \A i \in 1..Len(Candidates) :
        LET k == Candidates[i][1]
            v == Candidates[i][2]
        IN  IsLast(i) =>
              IF Applies(Candidates[i]) THEN Has(OutParams, k, v)
              ELSE Has(OutParams, k, Get(ExistingMap, k))

\* both policies act on a key of E: a=1 exists and a candidate for a has
\* another value; with override the output holds the candidate's value,
\* without it the output holds 1
C1_Witness ==
    /\ Built /\ merge_existing
    /\ \E i \in 1..Len(Candidates) :
         /\ Candidates[i][1] \in Keys(ExistingMap)
         /\ Candidates[i][2] # Get(ExistingMap, Candidates[i][1])
         /\ Len(Candidates) = 2 /\ Candidates[1][1] = Candidates[2][1]
         /\ Has(OutParams, Candidates[i][1],
                IF override_existing THEN Candidates[2][2]
                ELSE Get(ExistingMap, Candidates[i][1]))

----------------------------------------------------------------------------
(* C2: merge_existing = false replaces the original query                  *)

HasQuery == urlparse(with_scheme(base_url)).query # <<>>

\* C2 as stated: with merge_existing false and a base URL that carries a
\* query, the output query contains exactly the normalized non-blank
\* candidates, and no key of the original query unless it is a candidate key.
C2_ExactlyCandidates ==
    (Built /\ ~merge_existing /\ HasQuery) =>
      /\ Pairs(OutParams) = Pairs(Candidates)
      /\ \A k \in Keys(OriginalMap) : k \in Keys(OutParams) => k \in Keys(Candidates)

\* C2 amended: with merge_existing false and a base URL that carries a query,
\* the output query contains exactly, for each key of a normalized non-blank
\* candidate, the last supplied candidate with that key, and no key of the
\* original query unless it is a candidate key.
C2_MergeDisabled ==
    (Built /\ ~merge_existing /\ HasQuery) =>
      /\ Pairs(OutParams) = {Candidates[i] : i \in {j \in 1..Len(Candidates) : IsLast(j)}}
      /\ Len(OutParams) = Cardinality(Keys(Candidates))
      /\ \A k \in Keys(OriginalMap) : k \in Keys(OutParams) => k \in Keys(Candidates)

\* the original query has a key that no candidate supplies, and a candidate
\* is in the output
C2_Witness ==
    /\ Built /\ ~merge_existing /\ HasQuery
    /\ Keys(OriginalMap) \ Keys(Candidates) # {}
    /\ Keys(OriginalMap) \cap Keys(Candidates) # {}
    /\ OutParams # <<>>

----------------------------------------------------------------------------
(* C3: blank pairs                                                         *)

\* pairs without its i-th entry
Without(d, i) == SubSeq(d, 1, i - 1) \o SubSeq(d, i + 1, Len(d))

\* the output for key k is what the existing query contributed, or k is absent
FromExisting(k) ==
    IF k \in Keys(ExistingMap) THEN Has(OutParams, k, Get(ExistingMap, k))
    ELSE k \notin Keys(OutParams)

\* C3 as stated: a blank supplied pair never adds or overwrites an entry, and
\* the output for its key is exactly what the existing query contributed (or
\* the key is absent).
C3_BlankKeyFromExisting ==
    Built =>
      \A i \in 1..Len(pairs) :
        IsBlank(i) => FromExisting(pairs[i][1]) \/ FromExisting(NormalizedPairs[i][1])

\* C3 amended: a blank supplied pair never adds or overwrites an entry: the
\* call returns what it returns without the pair.  Unless another supplied,
\* non-blank pair normalizes to the same key, the output for that key is
\* exactly what the existing query contributed (or the key is absent).
C3_BlankFiltering ==
    Built =>
      \A i \in 1..Len(pairs) :
        IsBlank(i) =>
          /\ result = build_utm_url(base_url, Without(pairs, i), force_lower, space_mode,
                                    merge_existing, override_existing)
          /\ NormalizedPairs[i][1] \notin Keys(Candidates)
               => FromExisting(NormalizedPairs[i][1])

\* a whitespace-only value was supplied for a key of the existing query,
\* which keeps its existing value, next to a pair that is not blank
C3_Witness ==
    /\ Built /\ override_existing
    /\ \E i \in 1..Len(pairs) :
         /\ pairs[i][2] = <<" ">>
         /\ NormalizedPairs[i][1] \in Keys(ExistingMap)
         /\ Has(OutParams, NormalizedPairs[i][1], Get(ExistingMap, NormalizedPairs[i][1]))
    /\ Candidates # <<>>

----------------------------------------------------------------------------
(* C9: order of the output query                                           *)

\* the candidates that take effect, one per key: the last supplied value at
\* the place of the first supplied pair with the key
Effective == FromItems(SelectSeq(Candidates, Applies))

\* C9 as stated: with merge_existing true the untouched existing parameters
\* come first, in their original order, and the new and the overridden
\* parameters follow in the order supplied.
C9_OverriddenLast ==
    (Built /\ merge_existing) =>
      OutParams = SelectSeq(ExistingMap, LAMBDA e : e[1] \notin Keys(Effective))
                  \o Effective

\* C9 amended: with merge_existing true the keys of the existing query come
\* first, in their original order, an overridden one at its original place
\* with the new value, and the new keys follow in the order supplied.
C9_OutputOrder ==
    (Built /\ merge_existing) =>
      /\ Len(OutParams) >= Len(ExistingMap)
      /\ \A i \in 1..Len(ExistingMap) :
           LET k == ExistingMap[i][1]
           IN  OutParams[i] = <<k, IF k \in Keys(Effective) THEN Get(Effective, k)
                                   ELSE ExistingMap[i][2]>>
      /\ SubSeq(OutParams, Len(ExistingMap) + 1, Len(OutParams))
           = SelectSeq(Effective, LAMBDA c : c[1] \notin Keys(ExistingMap))

\* the first of two existing keys is overridden and a new key is supplied
C9_Witness ==
    /\ Built /\ merge_existing /\ override_existing
    /\ Len(ExistingMap) = 2
    /\ Len(OutParams) = 3
    /\ ExistingMap[1][1] \in Keys(Effective)
    /\ ExistingMap[2][1] \notin Keys(Effective)
    /\ OutParams[1][2] # ExistingMap[1][2]

----------------------------------------------------------------------------
(* C4, C5: rejected base URLs                                              *)

\* C4: a base URL that is empty or whitespace-only fails with the empty-base
\* error and no URL is returned.
C4_EmptyBaseRejected ==
    (pc # "call" /\ strip(base_url) = <<>>) =>
      result.raised /\ result.error = EmptyBaseURLError

\* C5: a base URL that has no host after scheme inference fails with the
\* invalid-base error, and so does the base "utm_source=foo".
C5_MalformedBaseRejected ==
    pc # "call" =>
      /\ (base_url # <<>> /\ urlparse(with_scheme(base_url)).netloc = <<>>)
           => result.raised /\ result.error = InvalidBaseURLError
      /\ base_url = <<"utm", "_", "source", "=", "foo">>
           => result.raised /\ result.error = InvalidBaseURLError

----------------------------------------------------------------------------
(* C6: scheme inference                                                    *)

StartsWith(s, p) == Len(p) <= Len(s) /\ SubSeq(s, 1, Len(p)) = p

\* the part of s before its first "?" or "#"
BeforeQuery(s) ==
    LET stops == {i \in 1..Len(s) : s[i] \in {"?", "#"}}
    IN  IF stops = {} THEN s ELSE SubSeq(s, 1, Min(stops) - 1)

SchemeSep == <<":", "/", "/">>

\* C6: a base URL without "://" is parsed as "https://" + base_url: the
\* returned URL has the scheme https, then the typed host and path.  On a base
\* URL with "://" nothing is prepended and the given scheme is kept (urlparse
\* writes it in lower case).  "example.com/page" with utm_source=x,
\* utm_medium=y, utm_campaign=z and the default options gives
\* "https://example.com/page?utm_source=x&utm_medium=y&utm_campaign=z".
C6_SchemeInference ==
    Built =>
      LET typed == lstrip(base_url)
      IN  /\ ~Contains(base_url, SchemeSep)
               => StartsWith(result.url, <<"https">> \o SchemeSep \o BeforeQuery(base_url))
          /\ (Contains(base_url, SchemeSep) /\ StartsWith(From(typed, 1), SchemeSep))
               => StartsWith(result.url, <<LowerAtom(typed[1])>> \o SchemeSep
                                         \o BeforeQuery(From(typed, 4)))
          /\ (Contains(base_url, SchemeSep) /\ ~StartsWith(From(typed, 1), SchemeSep))
               => StartsWith(result.url, BeforeQuery(typed))
          /\ (/\ base_url = <<"example.com", "/", "page">>
              /\ Len(pairs) = 3
              /\ force_lower /\ space_mode = "underscore"
              /\ merge_existing /\ override_existing)
               => result.url = <<"https", ":", "/", "/", "example.com", "/", "page", "?",
                                 "utm", "_", "source", "=", "x", "&",
                                 "utm", "_", "medium", "=", "y", "&",
                                 "utm", "_", "campaign", "=", "z">>

\* the three shapes were built: the example without a scheme and, on the
\* other branch of the state space, bases typed with http:// and HTTP://
C6_Witness ==
    /\ Built
    /\ base_url = <<"example.com", "/", "page">>
    /\ Len(pairs) = 3
    /\ StartsWith(result.url, <<"https", ":", "/", "/", "example.com", "/", "page", "?">>)

----------------------------------------------------------------------------
(* C7: re-merging a built URL                                              *)

\* the same URL up to the order of the query parameters
SameUpToQueryOrder(u1, u2) ==
    LET p1 == urlparse(u1)
        p2 == urlparse(u2)
    IN  /\ p1.scheme = p2.scheme /\ p1.netloc = p2.netloc
        /\ p1.path = p2.path /\ p1.fragment = p2.fragment
        /\ Pairs(parse_qsl(p1.query)) = Pairs(parse_qsl(p2.query))
        /\ Len(parse_qsl(p1.query)) = Len(parse_qsl(p2.query))

\* C7: for u built with override_existing true, build_utm_url(u, {}) with
\* merge_existing true returns u, up to the order of the query parameters.
C7_IdempotentRemerge ==
    (pc = "remerged" /\ override_existing) =>
      ~remerged.raised /\ SameUpToQueryOrder(remerged.url, result.url)

----------------------------------------------------------------------------
(* C8: normalize_pair                                                      *)

\* t is s without its leading and trailing whitespace
IsTrimOf(t, s) ==
    \E a \in 0..Len(s) :
      /\ a + Len(t) <= Len(s)
      /\ t = SubSeq(s, a + 1, a + Len(t))
      /\ \A i \in 1..a : IsSpace(s[i])
      /\ \A i \in (a + Len(t) + 1)..Len(s) : IsSpace(s[i])
      /\ t # <<>> => ~IsSpace(t[1]) /\ ~IsSpace(t[Len(t)])

\* out is s trimmed, then lowercased iff force_lower, then with every space
\* replaced as space_mode says
IsNormalOf(out, s) ==
    \E t \in {SubSeq(s, a, b) : a \in 1..(Len(s) + 1), b \in 0..Len(s)} :
      /\ IsTrimOf(t, s)
      /\ Len(out) = Len(t)
      /\ \A i \in 1..Len(t) :
           LET c == IF force_lower THEN LowerAtom(t[i]) ELSE t[i]
           IN  out[i] = IF c = " " /\ space_mode = "underscore" THEN "_"
                        ELSE IF c = " " /\ space_mode = "dash" THEN "-"
                        ELSE c

NormRule ==
    /\ IsNormalOf(normalized[1], arg_k)
    /\ IF arg_v = None THEN normalized[2] = None ELSE IsNormalOf(normalized[2], arg_v)

IsExample == arg_k = <<"UTM", " ", "Source">> /\ arg_v = <<"Paid", " ", "Search">> /\ force_lower

\* C8 as stated: the rule, and ("UTM Source", "Paid Search") with force_lower
\* gives the key "utm_source" in every space mode, with the value
\* "paid_search", "paid-search" or "paid search".
C8_ExampleKeyUnderscore ==
    pc = "done" =>
      /\ NormRule
      /\ IsExample =>
           /\ normalized[1] = <<"utm", "_", "source">>
           /\ normalized[2] = <<"paid", CASE space_mode = "underscore" -> "_"
                                          [] space_mode = "dash" -> "-"
                                          [] OTHER -> " ", "search">>

\* C8 amended: the rule, applied to the key as to the value: ("UTM Source",
\* "Paid Search") with force_lower gives ("utm_source", "paid_search") for
\* underscore, ("utm-source", "paid-search") for dash and ("utm source",
\* "paid search") for keep.
C8_NormalizePair ==
    pc = "done" =>
      /\ NormRule
      /\ IsExample =>
           LET sep == CASE space_mode = "underscore" -> "_"
                        [] space_mode = "dash" -> "-"
                        [] OTHER -> " "
           IN  normalized = << <<"utm", sep, "source">>, <<"paid", sep, "search">> >>

\* the example was normalized with space_mode dash
C8_Witness ==
    /\ pc = "done" /\ IsExample /\ space_mode = "dash"
    /\ normalized = << <<"utm", "-", "source">>, <<"paid", "-", "search">> >>

----------------------------------------------------------------------------
(* C10: the history                                                        *)

NoDuplicates(h) == \A i, j \in 1..Len(h) : i # j => h[i] # h[j]

\* h after url was generated: url first, the other entries in their order,
\* at most HISTORY_LIMIT entries
MovedToFront(h, url) ==
    LET all == <<url>> \o SelectSeq(h, LAMBDA u : u # url)
    IN  IF Len(all) <= HISTORY_LIMIT THEN all ELSE SubSeq(all, 1, HISTORY_LIMIT)

\* the dialogs of a generate that built no URL
NotGenerated == {"Missing", "Proceed?", "Failed to generate URL"}

\* C10: from an empty history, every sequence of generate operations keeps
\* at most 20 entries and no URL twice, with the most recently generated URL
\* at index 0; a generated URL goes to the front and the other entries keep
\* their order; a generate whose build fails leaves the history unchanged.
C10_History ==
    /\ [](/\ Len(history) <= HISTORY_LIMIT
          /\ NoDuplicates(history)
          /\ generated # <<>> => (history # <<>> /\ history[1] = generated))
    /\ [][/\ (history' # history \/ campaigns' # campaigns \/ repeats' # repeats)
              => (generated' # <<>> /\ history' = MovedToFront(history, generated'))
          /\ dialog' \in NotGenerated => history' = history]_vars

\* the history is full, 21 distinct URLs and a repeated one were generated,
\* and the last generate failed
C10_Witness ==
    /\ Len(history) = HISTORY_LIMIT
    /\ campaigns > HISTORY_LIMIT
    /\ repeats > 0
    /\ dialog = "Failed to generate URL"

====
